---- MODULE Spec2Model ----
(***************************************************************************)
(* BOM analysis application: analyze_bom_data (aggregation engine),        *)
(* calculate_requirements (Strategy A) and calculate_custom_requirements   *)
(* (Strategy B).                                                           *)
(*                                                                         *)
(* A DataFrame is a record [columns, rows]; a row is a function from the   *)
(* column headers to cells.  A text cell is a sequence of one-character    *)
(* strings, a numeric cell an integer.  A mean is kept exact as a record   *)
(* [num, den]; floating-point rounding is not modelled.                    *)
(***************************************************************************)
EXTENDS Integers, Sequences, FiniteSets, TLC

VARIABLES bom_a_l, bom_m_z, dispensing_data, raw_materials, analysis_results,
          call, outcome, requirements, ui, insights, page, runtime

vars == <<bom_a_l, bom_m_z, dispensing_data, raw_materials, analysis_results,
          call, outcome, requirements, ui, insights, page, runtime>>

(***************************************************************************)
(* Bounds                                                                  *)
(***************************************************************************)
\* rows of the two BOM partitions together
MaxRows == 2
\* rows of the raw-materials table
MaxStockRows == 2

(***************************************************************************)
(* Missing values                                                          *)
(***************************************************************************)
\* numpy NaN in a numeric column
NaN == -99
\* numpy NaN in a text column
NaNText == <<"NaN">>
\* Python None for an unresolved column
None == "None"

notna(v) == v # NaN
notna_text(v) == v # NaNText

(***************************************************************************)
(* Text                                                                    *)
(***************************************************************************)
\* ord() of the characters used
ord(c) ==
  CASE c = " " -> 32 [] c = "(" -> 40 [] c = "." -> 46 [] c = "/" -> 47
    [] c = "0" -> 48 [] c = "1" -> 49 [] c = "2" -> 50 [] c = "3" -> 51
    [] c = "9" -> 57
    [] c = "A" -> 65 [] c = "C" -> 67 [] c = "N" -> 78 [] c = "P" -> 80
    [] c = "U" -> 85 [] c = "X" -> 88 [] c = "Y" -> 89 [] c = "Z" -> 90
    [] c = "a" -> 97 [] c = "c" -> 99 [] c = "k" -> 107 [] c = "n" -> 110
    [] c = "o" -> 111 [] c = "p" -> 112 [] c = "u" -> 117 [] c = "w" -> 119
    [] c = "x" -> 120 [] c = "y" -> 121 [] c = "z" -> 122

\* str.lower() on one character
lower_char(c) ==
  CASE c = "A" -> "a" [] c = "C" -> "c" [] c = "N" -> "n" [] c = "P" -> "p"
    [] c = "U" -> "u" [] c = "X" -> "x" [] c = "Y" -> "y" [] c = "Z" -> "z"
    [] OTHER -> c

\* str.lower()
lower(s) == [i \in 1..Len(s) |-> lower_char(s[i])]

\* str.strip(): drops leading and trailing blanks
strip(s) ==
  LET nonblank == {i \in 1..Len(s) : s[i] # " "}
  IN IF nonblank = {} THEN <<>>
     ELSE LET lo == CHOOSE i \in nonblank : \A j \in nonblank : i <= j
              hi == CHOOSE i \in nonblank : \A j \in nonblank : i >= j
          IN SubSeq(s, lo, hi)

\* astype(str) / str() on a text cell: a missing cell becomes the text "nan"
astype_str(v) == IF v = NaNText THEN <<"n", "a", "n">> ELSE v

\* re.compile(pat): "(" without ")" is an unterminated subpattern
regex_error(pat) == \E i \in 1..Len(pat) : pat[i] = "("

\* re.search(pat, s, re.IGNORECASE): "." matches any character
regex_search(pat, s) ==
  \E off \in 0..(Len(s) - Len(pat)) :
    \A j \in 1..Len(pat) :
      pat[j] = "." \/ lower_char(pat[j]) = lower_char(s[off + j])

\* lexicographic order of text by character code
RECURSIVE text_less(_, _)
text_less(s, t) ==
  IF t = <<>> THEN FALSE
  ELSE IF s = <<>> THEN TRUE
  ELSE IF ord(Head(s)) # ord(Head(t)) THEN ord(Head(s)) < ord(Head(t))
  ELSE text_less(Tail(s), Tail(t))

(***************************************************************************)
(* DataFrame helpers                                                       *)
(***************************************************************************)
\* columns whose cells are numbers
NumericHeaders ==
  {"TOTCOST", "L2 CostInBOM", "L2 Unti Qty", "L3 Unit Qty", "L2 Unit Qty",
   "L2 Unit Quantity", "UnitQuantity", "Unit Qty", "SOH", "Qty", "Value"}

nan_of(h) == IF h \in NumericHeaders THEN NaN ELSE NaNText

empty_frame == [columns |-> {}, rows |-> <<>>]

\* an optional table that was not supplied (dispensing_data=None, raw_materials=None)
NoneFrame == [none |-> TRUE]

is_none(df) == "none" \in DOMAIN df

\* DataFrame.empty: no rows or no columns
is_empty(df) == df.rows = <<>> \/ df.columns = {}

\* pd.concat([a, b], ignore_index=True): union of the columns, rows of a
\* then rows of b, a cell of a column the row's table lacks is missing
concat(a, b) ==
  LET cols == a.columns \cup b.columns
      widen(r) == [h \in cols |-> IF h \in DOMAIN r THEN r[h] ELSE nan_of(h)]
  IN [columns |-> cols,
      rows |-> [i \in 1..(Len(a.rows) + Len(b.rows)) |->
                  IF i <= Len(a.rows) THEN widen(a.rows[i])
                  ELSE widen(b.rows[i - Len(a.rows)])]]

\* the subsequence of s at the positions in keep, in order
RECURSIVE select(_, _, _)
select(s, keep, i) ==
  IF i > Len(s) THEN <<>>
  ELSE IF i \in keep THEN <<s[i]>> \o select(s, keep, i + 1)
  ELSE select(s, keep, i + 1)

\* stable descending sort of records on an integer field, as
\* sort_values(field, ascending=False) orders a short table
RECURSIVE insert_desc(_, _, _)
insert_desc(s, x, field) ==
  IF s = <<>> THEN <<x>>
  ELSE IF Head(s)[field] >= x[field] THEN <<Head(s)>> \o insert_desc(Tail(s), x, field)
  ELSE <<x>> \o s

\* the same table left in ascending order
RECURSIVE sort_values_asc(_, _)
sort_values_asc(s, field) ==
  IF s = <<>> THEN <<>>
  ELSE LET m == CHOOSE i \in 1..Len(s) : \A j \in 1..Len(s) : s[i][field] <= s[j][field]
       IN <<s[m]>> \o sort_values_asc(select(s, (1..Len(s)) \ {m}, 1), field)

RECURSIVE sort_values_desc(_, _)
sort_values_desc(s, field) ==
  IF s = <<>> THEN <<>>
  ELSE insert_desc(sort_values_desc(SubSeq(s, 1, Len(s) - 1), field), s[Len(s)], field)

(***************************************************************************)
(* Strategy B: calculate_custom_requirements                               *)
(***************************************************************************)
possible_columns ==
  [assly |-> <<"Assly Part Number", "Assembly Part Number", "Product", "ProductCode", "FG Code">>,
   component |-> <<"Component", "ComponentCode", "Part Number", "PartNumber", "L2 Code">>,
   qty |-> <<"L2 Unti Qty", "L2 Unit Quantity", "UnitQuantity", "Unit Qty">>,
   description |-> <<"Description", "L2 Description", "Component Description",
                     "Item Description", "Part Description">>]

\* the alias of lowest priority that is a column
last_alias(aliases, columns) ==
  LET hits == {i \in 1..Len(aliases) : aliases[i] \in columns}
  IN IF hits = {} THEN None
     ELSE aliases[CHOOSE i \in hits : \A j \in hits : i >= j]

\* next((col for col in aliases if col in columns), None)
first_alias(aliases, columns) ==
  LET hits == {i \in 1..Len(aliases) : aliases[i] \in columns}
  IN IF hits = {} THEN None
     ELSE aliases[CHOOSE i \in hits : \A j \in hits : i <= j]

\* strategy 1: trimmed, case-sensitive equality
strategy_exact(df, assly_col, product) ==
  {i \in 1..Len(df.rows) : strip(astype_str(df.rows[i][assly_col])) = strip(product)}

\* strategy 2 without the lower-casing
strategy_lower_cased(df, assly_col, product) ==
  {i \in 1..Len(df.rows) : strip(astype_str(df.rows[i][assly_col])) = strip(product)}

\* strategy 2: trimmed, lower-cased equality
strategy_lower(df, assly_col, product) ==
  {i \in 1..Len(df.rows) :
     lower(strip(astype_str(df.rows[i][assly_col]))) = lower(strip(product))}

\* strategy 3: str.contains(str(product), case=False, na=False); the
\* product is the regular expression, compiled before any row is tried
strategy_contains(df, assly_col, product) ==
  {i \in 1..Len(df.rows) : regex_search(product, astype_str(df.rows[i][assly_col]))}

\* find_product_bom: the positions in combined_bom of the rows of the first
\* strategy with a non-empty result; a later strategy is evaluated only when
\* the earlier ones are empty
find_product_bom(combined_bom, assly_col, product) ==
  LET s1 == strategy_exact(combined_bom, assly_col, product)
      s2 == strategy_lower(combined_bom, assly_col, product)
      s3 == strategy_contains(combined_bom, assly_col, product)
  IN IF s1 # {} THEN [raised |-> FALSE, rows |-> s1]
     ELSE IF s2 # {} THEN [raised |-> FALSE, rows |-> s2]
     ELSE IF regex_error(product) THEN [raised |-> TRUE, rows |-> {}]
     ELSE [raised |-> FALSE, rows |-> s3]

UnknownText == <<"U", "n", "k", "n", "o", "w", "n">>
NAText == <<"N", "/", "A">>

\* analysis_results.get('component_usage', pd.DataFrame())
get_component_usage(ar) ==
  IF "component_usage" \in DOMAIN ar THEN ar.component_usage ELSE empty_frame

\* stock lookup of one requirement line
stock_on_hand(component_usage, component) ==
  IF is_empty(component_usage) THEN 0
  ELSE LET stock_entry == {i \in 1..Len(component_usage.rows) :
                             component_usage.rows[i]["index"] = component}
       IN IF stock_entry # {} /\ "SOH" \in component_usage.columns
            THEN component_usage.rows[CHOOSE i \in stock_entry :
                                        \A j \in stock_entry : i <= j]["SOH"]
            ELSE 0

\* a comparison with NaN is False
ge(a, b) == a # NaN /\ b # NaN /\ a >= b

\* a missing quantity taken as no quantity
unit_qty_of_zero(v) == IF notna(v) THEN v ELSE 0

\* the default unit quantity of a row whose quantity is missing
unit_qty_of(v) == IF notna(v) THEN v ELSE 1

\* one pass of the loop over product_bom.iterrows(); index is the position
\* the line gets in the requirements DataFrame
requirement_line(row, index, quantity_desired, component_col, qty_col, description_col, component_usage) ==
  LET component == IF notna_text(row[component_col])
                     THEN astype_str(row[component_col]) ELSE UnknownText
      unit_qty == unit_qty_of(row[qty_col])
      total_qty == unit_qty * quantity_desired
      component_desc == IF description_col # None /\ notna_text(row[description_col])
                          THEN astype_str(row[description_col]) ELSE NAText
      stock_qty == stock_on_hand(component_usage, component)
  IN [index |-> index,
      ComponentCode |-> component,
      Description |-> component_desc,
      UnitQuantityPerProduct |-> unit_qty,
      TotalUnitQuantity |-> total_qty,
      StockOnHand |-> stock_qty,
      StockStatus |-> IF ge(stock_qty, total_qty) THEN "Sufficient" ELSE "Insufficient"]

\* drop_duplicates(subset=['Component Code']): keeps the first line of each code
drop_duplicates_last(lines) ==
  select(lines,
         {i \in 1..Len(lines) :
            \A j \in (i + 1)..Len(lines) : lines[j].ComponentCode # lines[i].ComponentCode},
         1)

drop_duplicates(lines) ==
  select(lines,
         {i \in 1..Len(lines) :
            \A j \in 1..(i - 1) : lines[j].ComponentCode # lines[i].ComponentCode},
         1)

\* the i-th smallest element of a set of positions, as a sequence
RECURSIVE positions(_)
positions(S) ==
  IF S = {} THEN <<>>
  ELSE LET m == CHOOSE i \in S : \A j \in S : i <= j
       IN <<m>> \o positions(S \ {m})

calculate_custom_requirements(product, quantity_desired, a_l, m_z, ar) ==
  LET combined_bom == concat(a_l, m_z)
      assly_col == first_alias(possible_columns.assly, combined_bom.columns)
      component_col == first_alias(possible_columns.component, combined_bom.columns)
      qty_col == first_alias(possible_columns.qty, combined_bom.columns)
      description_col == first_alias(possible_columns.description, combined_bom.columns)
  IN IF assly_col = None \/ component_col = None \/ qty_col = None
       THEN [outcome |-> "returned", requirements |-> <<>>, ui |-> "error"]
     ELSE
       LET found == find_product_bom(combined_bom, assly_col, product)
           product_bom == positions(found.rows)
           lines == [k \in 1..Len(product_bom) |->
                       requirement_line(combined_bom.rows[product_bom[k]], k - 1,
                                        quantity_desired, component_col, qty_col,
                                        description_col, get_component_usage(ar))]
       IN IF found.raised
            THEN [outcome |-> "raised", requirements |-> <<>>, ui |-> "none"]
          ELSE IF product_bom = <<>>
            THEN [outcome |-> "returned", requirements |-> <<>>, ui |-> "warning"]
          ELSE [outcome |-> "returned",
                requirements |-> sort_values_desc(drop_duplicates(lines), "TotalUnitQuantity"),
                ui |-> "none"]

(***************************************************************************)
(* Aggregation engine: analyze_bom_data                                    *)
(***************************************************************************)
\* Series.sum(): missing cells are skipped
RECURSIVE sum_column(_, _, _)
sum_column(df, members, h) ==
  IF members = {} THEN 0
  ELSE LET i == CHOOSE k \in members : TRUE
           v == df.rows[i][h]
       IN (IF notna(v) THEN v ELSE 0) + sum_column(df, members \ {i}, h)

\* a count of the rows, missing cells included
count_rows(df, members, h) == Cardinality(members)

\* Series.count(): the number of cells that are not missing
count_text(df, members, h) == Cardinality({i \in members : notna_text(df.rows[i][h])})
count_num(df, members, h) == Cardinality({i \in members : notna(df.rows[i][h])})

\* Series.mean(): missing cells are skipped; NaN (den = 0) when none is left
mean_column(df, members, h) ==
  IF count_num(df, members, h) = 0 THEN [num |-> 0, den |-> 0]
  ELSE [num |-> sum_column(df, members, h), den |-> count_num(df, members, h)]

\* len(x.unique()): a missing cell is one more distinct value
nunique(df, members, h) == Cardinality({df.rows[i][h] : i \in members})

\* len(x.dropna().unique())
nunique_dropna(df, members, h) == Cardinality({df.rows[i][h] : i \in members} \ {NaNText})

\* the keys of df.groupby(h): the distinct values that are not missing
\* (rows with a missing key are dropped), in ascending order
RECURSIVE sorted_texts(_)
sorted_texts(S) ==
  IF S = {} THEN <<>>
  ELSE LET m == CHOOSE x \in S : \A y \in S \ {x} : text_less(x, y)
       IN <<m>> \o sorted_texts(S \ {m})

group_keys(df, h) == sorted_texts({df.rows[i][h] : i \in 1..Len(df.rows)} \ {NaNText})

group_members(df, h, key) == {i \in 1..Len(df.rows) : df.rows[i][h] = key}

\* calculate_product_metrics: product_costs
product_costs(df) ==
  LET keys == group_keys(df, "FG Code")
  IN [k \in 1..Len(keys) |->
        LET g == group_members(df, "FG Code", keys[k])
        IN [index |-> keys[k],
            TOTCOST |-> sum_column(df, g, "TOTCOST"),
            component_count |-> count_text(df, g, "L2 Code"),
            total_component_cost |-> sum_column(df, g, "L2 CostInBOM"),
            L2UntiQty |-> sum_column(df, g, "L2 Unti Qty"),
            L3UnitQty |-> sum_column(df, g, "L3 Unit Qty")]]

\* calculate_product_metrics: the score of each FG Code, before the sort
complexity_scores(df) ==
  LET keys == group_keys(df, "FG Code")
  IN [k \in 1..Len(keys) |->
        LET g == group_members(df, "FG Code", keys[k])
        IN [index |-> keys[k],
            score |-> nunique(df, g, "L2 Code") + nunique_dropna(df, g, "L3 Code")
                        + nunique_dropna(df, g, "L4 Code")]]

\* the scores left in group order
product_complexity_unsorted(df) == complexity_scores(df)

product_complexity(df) == sort_values_desc(complexity_scores(df), "score")

\* analyze_component_usage, with the stock join of analyze_bom_data
usage_groups(df) ==
  LET keys == group_keys(df, "L2 Code")
  IN [k \in 1..Len(keys) |->
        LET g == group_members(df, "L2 Code", keys[k])
        IN [index |-> keys[k],
            used_in_products |-> nunique(df, g, "FG Code"),
            avg_cost |-> mean_column(df, g, "L2 CostInBOM"),
            avg_quantity |-> mean_column(df, g, "L2 Unti Qty")]]

analyze_component_usage(df) == sort_values_desc(usage_groups(df), "used_in_products")

\* raw_materials.groupby("TRIMcode").agg({"SOH": "sum"}) left-joined on the
\* component: a component without stock rows gets a missing SOH
stock_summary(stock, component) ==
  LET g == {i \in 1..Len(stock.rows) : stock.rows[i]["TRIMcode"] = component}
  IN IF g = {} THEN NaN ELSE sum_column(stock, g, "SOH")

join_stock(usage, stock) ==
  [k \in 1..Len(usage) |-> usage[k] @@ [SOH |-> stock_summary(stock, usage[k].index)]]

\* dispensing_data.groupby("Code").agg({"Qty": "sum", "Value": "sum"})
\* left-joined on the component
dispensing_summary_zero(dispensing, component, h) ==
  sum_column(dispensing, {i \in 1..Len(dispensing.rows) : dispensing.rows[i]["Code"] = component}, h)

dispensing_summary(dispensing, component, h) ==
  LET g == {i \in 1..Len(dispensing.rows) : dispensing.rows[i]["Code"] = component}
  IN IF g = {} THEN NaN ELSE sum_column(dispensing, g, h)

join_dispensing(usage, dispensing) ==
  [k \in 1..Len(usage) |->
     usage[k] @@ [dispensed_qty |-> dispensing_summary(dispensing, usage[k].index, "Qty"),
                  dispensed_value |-> dispensing_summary(dispensing, usage[k].index, "Value")]]

\* Series.min() / Series.max() of a group: missing cells are skipped, the
\* result is missing when none is left
\* the minimum with a missing cell read as 0
column_min_zero(df, members, h) ==
  LET vals == {IF df.rows[i][h] = NaN THEN 0 ELSE df.rows[i][h] : i \in members}
  IN IF vals = {} THEN NaN ELSE CHOOSE v \in vals : \A w \in vals : v <= w

column_min(df, members, h) ==
  LET vals == {df.rows[i][h] : i \in members} \ {NaN}
  IN IF vals = {} THEN NaN ELSE CHOOSE v \in vals : \A w \in vals : v <= w

column_max(df, members, h) ==
  LET vals == {df.rows[i][h] : i \in members} \ {NaN}
  IN IF vals = {} THEN NaN ELSE CHOOSE v \in vals : \A w \in vals : v >= w

\* DataFrame.min(axis=1) / max(axis=1) over the two per-group columns
row_min(a, b) == IF a = NaN THEN b ELSE IF b = NaN THEN a ELSE IF a <= b THEN a ELSE b
row_max(a, b) == IF a = NaN THEN b ELSE IF b = NaN THEN a ELSE IF a >= b THEN a ELSE b

min_qty_to_produce(df, members) ==
  row_min(column_min(df, members, "L2 Unti Qty"), column_min(df, members, "L3 Unit Qty"))

max_qty_to_produce(df, members) ==
  row_max(column_max(df, members, "L2 Unti Qty"), column_max(df, members, "L3 Unit Qty"))

\* product_costs.join([min_qty_to_produce, max_qty_to_produce])
product_metrics(df) ==
  LET costs == product_costs(df)
  IN [k \in 1..Len(costs) |->
        LET g == group_members(df, "FG Code", costs[k].index)
        IN costs[k] @@ [MIN_QTY_TO_PRODUCE |-> min_qty_to_produce(df, g),
                        MAX_QTY_TO_PRODUCE |-> max_qty_to_produce(df, g)]]

\* calculate_cost_distribution
RECURSIVE sum_field(_, _)
sum_field(s, field) ==
  IF s = <<>> THEN 0 ELSE Head(s)[field] + sum_field(Tail(s), field)

calculate_cost_distribution(df) ==
  [total_bom_cost |-> sum_column(df, 1..Len(df.rows), "TOTCOST"),
   avg_product_cost |->
     IF product_costs(df) = <<>> THEN [num |-> 0, den |-> 0]
     ELSE [num |-> sum_field(product_costs(df), "TOTCOST"), den |-> Len(product_costs(df))]]

\* the columns the groupby / agg calls name; one that the combined table
\* lacks raises KeyError
required_columns ==
  {"FG Code", "TOTCOST", "L2 Code", "L2 CostInBOM", "L2 Unti Qty", "L3 Unit Qty",
   "L3 Code", "L4 Code"}

\* component_usage after the optional joins
enrich_usage(usage, dispensing, stock) ==
  LET with_dispensing == IF is_none(dispensing) THEN usage
                         ELSE join_dispensing(usage, dispensing)
  IN IF is_none(stock) THEN with_dispensing ELSE join_stock(with_dispensing, stock)

usage_columns(dispensing, stock) ==
  {"used_in_products", "avg_cost", "avg_quantity"}
    \cup (IF is_none(dispensing) THEN {} ELSE {"dispensed_qty", "dispensed_value"})
    \cup (IF is_none(stock) THEN {} ELSE {"SOH"})

\* the dictionary the function returns
analysis_of(combined_bom, dispensing, stock) ==
  [product_metrics |-> product_metrics(combined_bom),
   product_complexity |-> product_complexity(combined_bom),
   component_usage |->
     [columns |-> usage_columns(dispensing, stock),
      rows |-> enrich_usage(analyze_component_usage(combined_bom), dispensing, stock)],
   cost_distribution |-> calculate_cost_distribution(combined_bom)]

\* a missing column answered with an empty result instead of an error
analyze_bom_data_lenient(a_l, m_z, dispensing, stock) ==
  IF required_columns \ concat(a_l, m_z).columns # {}
    THEN [outcome |-> "returned", results |-> <<>>]
  ELSE [outcome |-> "returned", results |-> analysis_of(concat(a_l, m_z), dispensing, stock)]

analyze_bom_data(a_l, m_z, dispensing, stock) ==
  IF required_columns \ concat(a_l, m_z).columns # {}
    THEN [outcome |-> "raised", results |-> <<>>]
  ELSE [outcome |-> "returned", results |-> analysis_of(concat(a_l, m_z), dispensing, stock)]

(***************************************************************************)
(* Insight generator: generate_insights                                    *)
(***************************************************************************)
\* the default n of head()
HeadRows == 5

\* the index labels of the first HeadRows entries
head_index(s) ==
  [k \in 1..(IF Len(s) < HeadRows THEN Len(s) ELSE HeadRows) |-> s[k].index]

\* component_usage["SOH"] < component_usage["avg_quantity"]; a comparison
\* with a missing value is False
soh_below_average(u) ==
  u.SOH # NaN /\ u.avg_quantity.den # 0 /\ u.SOH * u.avg_quantity.den < u.avg_quantity.num

\* component_usage["SOH"] raises KeyError when the usage table has no SOH column
generate_insights(ar) ==
  IF "SOH" \notin ar.component_usage.columns
    THEN [outcome |-> "raised", insights |-> <<>>]
  ELSE [outcome |-> "returned",
        insights |->
          [most_complex |-> head_index(ar.product_complexity),
           avg_product_cost |-> ar.cost_distribution.avg_product_cost,
           most_common |-> head_index(ar.component_usage.rows),
           min_max |-> [k \in 1..Len(ar.product_metrics) |->
                          [fg_code |-> ar.product_metrics[k].index,
                           min_qty |-> ar.product_metrics[k].MIN_QTY_TO_PRODUCE,
                           max_qty |-> ar.product_metrics[k].MAX_QTY_TO_PRODUCE]],
           stock_shortages |->
             select(ar.component_usage.rows,
                    {k \in 1..Len(ar.component_usage.rows) :
                       soh_below_average(ar.component_usage.rows[k])}, 1)]]

(***************************************************************************)
(* Row normalizer: clean_data                                              *)
(***************************************************************************)
\* a cell of a numeric column that holds text that is no number
Garbage == -98

numeric_columns_bom == {"TOTCOST", "L2 CostInBOM", "L2 Unti Qty", "L3 Unit Qty"}
numeric_columns_dispensing == {"Qty", "Value"}
numeric_columns_raw_materials == {"SOH"}

\* pd.to_numeric(errors='coerce'): what is no number becomes missing
to_numeric(v) == IF v = Garbage THEN NaN ELSE v

\* fillna(0)
fillna_zero(v) == IF v = NaN THEN 0 ELSE v

\* only the designated columns that the table has are rewritten
clean_data(df, numeric_columns) ==
  [columns |-> df.columns,
   rows |-> [i \in 1..Len(df.rows) |->
               [h \in DOMAIN df.rows[i] |->
                  IF h \in numeric_columns THEN fillna_zero(to_numeric(df.rows[i][h]))
                  ELSE df.rows[i][h]]]]

(***************************************************************************)
(* Strategy A: calculate_requirements                                      *)
(***************************************************************************)
\* stock_qty >= required_qty with required_qty = avg_quantity * quantity_desired
\* kept as a fraction; a missing average compares False
sufficient_stock(stock_qty, required_qty) ==
  required_qty.den # 0 /\ stock_qty * required_qty.den >= required_qty.num

requirements_line_A(component_usage, k, quantity_desired, stock) ==
  LET component == component_usage.rows[k].index
      avg_qty_per_unit == component_usage.rows[k].avg_quantity
      required_qty == [num |-> avg_qty_per_unit.num * quantity_desired,
                       den |-> avg_qty_per_unit.den]
      stock_row == {i \in 1..Len(stock.rows) : stock.rows[i]["TRIMcode"] = component}
      stock_qty == IF stock_row # {} THEN sum_column(stock, stock_row, "SOH") ELSE 0
  IN [Component |-> component,
      RequiredQuantity |-> required_qty,
      StockQuantity |-> stock_qty,
      SufficientStock |-> IF sufficient_stock(stock_qty, required_qty) THEN "Yes" ELSE "No"]

\* product_metrics.loc[product] raises KeyError for a product that is no
\* index label of the product metrics
loc_raises(metrics, product) ==
  \A k \in 1..Len(metrics) : metrics[k].index # product

calculate_requirements(product, quantity_desired, ar, stock) ==
  IF loc_raises(ar.product_metrics, product)
    THEN [outcome |-> "raised", requirements |-> <<>>]
  ELSE [outcome |-> "returned",
        requirements |-> [k \in 1..Len(ar.component_usage.rows) |->
                            requirements_line_A(ar.component_usage, k, quantity_desired, stock)]]

(***************************************************************************)
(* Page: search_and_requirements_page                                      *)
(***************************************************************************)
\* the strategies invoked, in order, and what the page shows at the end:
\* nothing, the requirements table, the "No requirements found" warning, or
\* the "Error calculating requirements" message of the except branch
search_and_requirements_page(product, quantity_desired, ar, a_l, m_z, stock) ==
  IF product = <<>> \/ quantity_desired <= 0
    THEN [invoked |-> <<>>, shown |-> "none", requirements |-> <<>>, ui |-> "none"]
  ELSE
    LET custom == calculate_custom_requirements(product, quantity_desired, a_l, m_z, ar)
        original == calculate_requirements(product, quantity_desired, ar, stock)
    IN IF custom.outcome = "raised"
         THEN [invoked |-> <<"B">>, shown |-> "error", requirements |-> <<>>,
               ui |-> custom.ui]
       ELSE IF custom.requirements # <<>>
         THEN [invoked |-> <<"B">>, shown |-> "table",
               requirements |-> custom.requirements, ui |-> custom.ui]
       ELSE IF original.outcome = "raised"
         THEN [invoked |-> <<"B", "A">>, shown |-> "error", requirements |-> <<>>,
               ui |-> custom.ui]
       ELSE IF original.requirements # <<>>
         THEN [invoked |-> <<"B", "A">>, shown |-> "table",
               requirements |-> original.requirements, ui |-> custom.ui]
       ELSE [invoked |-> <<"B", "A">>, shown |-> "warning", requirements |-> <<>>,
             ui |-> custom.ui]

(***************************************************************************)
(* Result cache: st.cache_resource, and the script runs that go through it *)
(***************************************************************************)
\* an object of the process is a table with a tag for its dtypes, or an
\* analysis result; table_of is the table without the tag
table_of(o) == [columns |-> o.columns, rows |-> o.rows]

\* cache_resource looks the arguments up by their hash, which for a table is
\* taken from its cells and dtypes; the stored object is handed out as it
\* is, without a copy; 0 when nothing is stored
cached(cache, fn, key) ==
  IF \E e \in cache : e.fn = fn /\ e.key = key
    THEN (CHOOSE e \in cache : e.fn = fn /\ e.key = key).ref
  ELSE 0

\* clean_data assigns the cleaned columns into the table it was handed
clean_in_place(o, numeric_columns) ==
  clean_data(table_of(o), numeric_columns) @@ [optimized |-> o.optimized]

\* optimize_memory assigns narrower dtypes into the table it was handed;
\* the cells keep their values
optimize_memory(o) == [o EXCEPT !.optimized = TRUE]

\* where a script run stands: before the upload is read, after it is read,
\* cleaned, optimized, analysed
NoSession ==
  [pc |-> "start", upload |-> <<>>, table |-> 0, returned_clean |-> <<>>,
   result |-> 0, returned_analysis |-> <<>>]

(***************************************************************************)
(* Inputs                                                                  *)
(***************************************************************************)
P1 == <<"P", "1">>
P2 == <<"P", "2">>
C1 == <<"C", "1">>
C2 == <<"C", "2">>

\* all sequences over S of length at most n
RECURSIVE SeqsUpTo(_, _)
SeqsUpTo(S, n) ==
  IF n = 0 THEN {<<>>}
  ELSE LET shorter == SeqsUpTo(S, n - 1)
       IN shorter \cup {Append(t, x) : t \in shorter, x \in S}

\* a BOM row with every column the aggregation engine reads
AnalysisRow(fg, l2, l3, l4, tot, cost, q2, q3) ==
  ("FG Code" :> fg) @@ ("L2 Code" :> l2) @@ ("L3 Code" :> l3) @@ ("L4 Code" :> l4)
    @@ ("TOTCOST" :> tot) @@ ("L2 CostInBOM" :> cost)
    @@ ("L2 Unti Qty" :> q2) @@ ("L3 Unit Qty" :> q3)

AnalysisColumns ==
  {"FG Code", "L2 Code", "L3 Code", "L4 Code", "TOTCOST", "L2 CostInBOM",
   "L2 Unti Qty", "L3 Unit Qty"}

\* rows as clean_data leaves them: a code may be missing, a number is not
AnalysisRows ==
  {AnalysisRow(P1, C1, <<"X">>, NaNText, 5, 5, 2, 1),
   AnalysisRow(P1, C2, NaNText, NaNText, 7, 7, 3, 0),
   AnalysisRow(P2, C1, <<"X">>, <<"Y">>, 4, 4, 1, 2),
   AnalysisRow(P2, C2, <<"Z">>, <<"Y">>, 1, 0, 0, 0),
   AnalysisRow(NaNText, C1, NaNText, NaNText, 3, 3, 1, 0),
   AnalysisRow(P2, NaNText, NaNText, NaNText, 2, 0, 0, 0)}

DispensingRow(code, qty, value) == ("Code" :> code) @@ ("Qty" :> qty) @@ ("Value" :> value)

StockRow(code, soh) == ("TRIMcode" :> code) @@ ("SOH" :> soh)

StockRows == {StockRow(C1, 1), StockRow(C2, 4)}

\* the quantity headers a BOM file may carry
QtyHeaders == {"L2 Unti Qty", "L2 Unit Qty"}

\* a BOM row of a file with the columns FG Code, L2 Code, <qty>, L2 CostInBOM
LookupRow(h, fg, l2, q, cost) ==
  ("FG Code" :> fg) @@ ("L2 Code" :> l2) @@ (h :> q) @@ ("L2 CostInBOM" :> cost)

LookupColumns(h) == {"FG Code", "L2 Code", h, "L2 CostInBOM"}

\* the unit quantity is missing in one row, as in the rows of a partition
\* that lacks the quantity column of the other
LookupRows(h) ==
  {LookupRow(h, P1, C1, 2, 5),
   LookupRow(h, P1, C2, 3, 7),
   LookupRow(h, <<"p", "1", " ">>, C1, 3, 5),
   LookupRow(h, <<"P", "1", "2">>, C2, NaN, 7),
   LookupRow(h, NaNText, C1, 1, 5),
   LookupRow(h, P2, NaNText, 2, 5)}

UsageRow(component, soh) ==
  [index |-> component, used_in_products |-> 1,
   avg_cost |-> [num |-> 5, den |-> 1], avg_quantity |-> [num |-> 2, den |-> 1],
   SOH |-> soh]

\* the analysis results handed to Strategy B: none, a usage table without
\* stock, and usage tables with stock
SuppliedResults ==
  {<<>>,
   [component_usage |->
      [columns |-> {"used_in_products", "avg_cost", "avg_quantity"},
       rows |-> <<UsageRow(C1, NaN), UsageRow(C2, NaN)>>]],
   [component_usage |->
      [columns |-> {"used_in_products", "avg_cost", "avg_quantity", "SOH"},
       rows |-> <<UsageRow(C1, 20), UsageRow(C2, 29)>>]],
   [component_usage |->
      [columns |-> {"used_in_products", "avg_cost", "avg_quantity", "SOH"},
       rows |-> <<UsageRow(C2, 40), UsageRow(C1, NaN)>>]]}

\* product identifiers typed by the user
ProductIds ==
  {P1, <<"p", "1">>, <<" ", "P", "1", " ">>, <<"P">>, <<"P", ".">>, <<"P", "(">>,
   <<"a", "n">>, <<"Z", "9">>}

\* product identifiers handed to Strategy A
ProductIdsA == {P1, P2, <<"Z", "9">>}

DesiredQuantities == {1, 10}

NoCall == [fn |-> "none", product |-> <<>>, quantity_desired |-> 0]

\* the process before any script run: no object, an empty cache, no session
NoRuntime == [heap |-> <<>>, cache |-> {}, sessions |-> <<>>]

\* the script runs of two browser sessions served by one process
Sessions == {"s1", "s2"}

\* rows of an uploaded A-L partition before clean_data
UploadRows ==
  {AnalysisRow(P1, C1, <<"X">>, NaNText, 5, 5, 2, 1),
   AnalysisRow(P1, C2, NaNText, NaNText, Garbage, 7, NaN, 0)}

Uploads ==
  {[columns |-> AnalysisColumns, rows |-> r] : r \in SeqsUpTo(UploadRows, MaxRows) \ {<<>>}}

\* the M-Z partition of every session: no rows
EmptyPartition == [columns |-> AnalysisColumns, rows |-> <<>>]

\* the page before it is rendered: no strategy invoked, nothing shown
NoPage == [invoked |-> <<>>, shown |-> "none"]

\* what the user may type into the page: nothing, a product, a typo
PageProducts == {<<>>, P1, <<"p", "1">>, <<"P", "(">>, <<"Z", "9">>}

PageQuantities == {0, 10}

(***************************************************************************)
(* State machine                                                           *)
(***************************************************************************)
\* the four uploads are loaded, nothing is analysed yet
Init ==
  /\ bom_a_l \in {[columns |-> AnalysisColumns, rows |-> r] :
                    r \in SeqsUpTo(AnalysisRows, MaxRows)}
  /\ bom_m_z \in {[columns |-> AnalysisColumns, rows |-> r] :
                    r \in SeqsUpTo(AnalysisRows, MaxRows - Len(bom_a_l.rows))}
  /\ dispensing_data = [columns |-> {"Code", "Qty", "Value"},
                        rows |-> <<DispensingRow(C1, 2, 6)>>]
  /\ raw_materials \in {[columns |-> {"TRIMcode", "SOH"}, rows |-> r] :
                          r \in SeqsUpTo(StockRows, MaxStockRows)}
  /\ analysis_results = <<>>
  /\ call = NoCall
  /\ outcome = "none"
  /\ requirements = <<>>
  /\ ui = "none"
  /\ insights = <<>>
  /\ page = NoPage
  /\ runtime = NoRuntime

\* the aliases a BOM file may carry for each logical column: none, the one of
\* lower priority, or both
AliasChoices(first, second) == {{}, {second}, {first, second}}

Schemas ==
  {a \cup c \cup q \cup d :
     a \in AliasChoices("Product", "FG Code"),
     c \in AliasChoices("Component", "L2 Code"),
     q \in AliasChoices("L2 Unti Qty", "Unit Qty"),
     d \in AliasChoices("Description", "L2 Description")}

\* a BOM row whose aliases of one logical column carry different values
AliasRow(fg1, fg2, c1, c2, q1, q2, d1, d2) ==
  ("Product" :> fg1) @@ ("FG Code" :> fg2) @@ ("Component" :> c1) @@ ("L2 Code" :> c2)
    @@ ("L2 Unti Qty" :> q1) @@ ("Unit Qty" :> q2)
    @@ ("Description" :> d1) @@ ("L2 Description" :> d2)

AliasRows ==
  {AliasRow(P1, P2, C1, C2, 2, 3, <<"X">>, <<"Y">>),
   AliasRow(P2, P1, C2, C1, 3, 2, <<"Y">>, <<"X">>)}

\* the rows cut down to the columns of the file
restrict(rows, columns) == [i \in 1..Len(rows) |-> [h \in columns |-> rows[i][h]]]

\* the columns a partition file may lack
DroppedColumns == {{}, {"FG Code"}, {"L2 Code"}, {"L2 Unti Qty"}, {"L3 Unit Qty"}}

PartitionRows ==
  {AnalysisRow(P1, C1, <<"X">>, NaNText, 5, 5, 2, 1),
   AnalysisRow(P1, C2, NaNText, NaNText, 7, 7, 3, 4),
   AnalysisRow(P2, C1, <<"X">>, <<"Y">>, 4, 4, 1, 2)}

\* a partition file without some column
Partitions(n) ==
  {[columns |-> AnalysisColumns \ d, rows |-> restrict(r, AnalysisColumns \ d)] :
     d \in DroppedColumns, r \in SeqsUpTo(PartitionRows, n)}

\* the optional uploads: not supplied, or supplied
DispensingTables ==
  {NoneFrame,
   [columns |-> {"Code", "Qty", "Value"},
    rows |-> <<DispensingRow(C1, 2, 6), DispensingRow(C1, 1, 3)>>]}

StockTables ==
  {NoneFrame,
   [columns |-> {"TRIMcode", "SOH"}, rows |-> <<>>],
   [columns |-> {"TRIMcode", "SOH"}, rows |-> <<StockRow(C1, 1), StockRow(C2, 4)>>],
   [columns |-> {"TRIMcode", "SOH"}, rows |-> <<StockRow(C1, 1), StockRow(C1, 1)>>]}

\* analyze_bom_data is handed partitions that may lack columns, with or
\* without the optional datasets
InitK ==
  /\ bom_a_l \in Partitions(MaxRows)
  /\ bom_m_z \in Partitions(MaxRows - Len(bom_a_l.rows))
  /\ dispensing_data \in DispensingTables
  /\ raw_materials \in StockTables
  /\ analysis_results = <<>>
  /\ call = NoCall
  /\ outcome = "none"
  /\ requirements = <<>>
  /\ ui = "none"
  /\ insights = <<>>
  /\ page = NoPage
  /\ runtime = NoRuntime

\* what a cell of an uploaded numeric column may hold: a number, a negative
\* number, nothing, or text that is no number
DirtyValues == {3, -2, NaN, Garbage}

\* an uploaded BOM row; Level is a column the workflow does not designate
DirtyRow(tot, level) == ("FG Code" :> P1) @@ ("TOTCOST" :> tot) @@ ("Level" :> level)

DirtyRows == {DirtyRow(tot, level) : tot \in DirtyValues, level \in {-2, Garbage}}

DirtyColumns == {{"FG Code", "TOTCOST", "Level"}, {"FG Code", "Level"}}

DirtyPartitions(n) ==
  {[columns |-> c, rows |-> restrict(r, c)] : c \in DirtyColumns, r \in SeqsUpTo(DirtyRows, n)}

\* the four uploads as read from the files, before clean_data
InitClean ==
  /\ bom_a_l \in DirtyPartitions(MaxRows)
  /\ bom_m_z \in DirtyPartitions(MaxRows - Len(bom_a_l.rows))
  /\ dispensing_data \in {[columns |-> {"Code", "Qty", "Value"},
                           rows |-> <<DispensingRow(C1, q, 6)>>] : q \in DirtyValues}
  /\ raw_materials \in {[columns |-> {"TRIMcode", "SOH"},
                         rows |-> <<StockRow(C1, s)>>] : s \in DirtyValues}
  /\ analysis_results = <<>>
  /\ call = NoCall
  /\ outcome = "none"
  /\ requirements = <<>>
  /\ ui = "none"
  /\ insights = <<>>
  /\ page = NoPage
  /\ runtime = NoRuntime

\* Strategy B is handed two BOM tables of one schema, and no analysis results
InitC ==
  /\ \E columns \in Schemas :
       /\ bom_a_l \in {[columns |-> columns, rows |-> restrict(r, columns)] :
                         r \in SeqsUpTo(AliasRows, MaxRows)}
       /\ bom_m_z \in {[columns |-> columns, rows |-> restrict(r, columns)] :
                         r \in SeqsUpTo(AliasRows, MaxRows - Len(bom_a_l.rows))}
  /\ dispensing_data = NoneFrame
  /\ raw_materials = [columns |-> {"TRIMcode", "SOH"}, rows |-> <<>>]
  /\ analysis_results = <<>>
  /\ call = NoCall
  /\ outcome = "none"
  /\ requirements = <<>>
  /\ ui = "none"
  /\ insights = <<>>
  /\ page = NoPage
  /\ runtime = NoRuntime

\* Strategy B is handed two BOM tables and analysis results
InitB ==
  /\ \E h \in QtyHeaders :
       bom_a_l \in {[columns |-> LookupColumns(h), rows |-> r] :
                      r \in SeqsUpTo(LookupRows(h), MaxRows)}
  /\ \E h \in QtyHeaders :
       bom_m_z \in {[columns |-> LookupColumns(h), rows |-> r] :
                      r \in SeqsUpTo(LookupRows(h), MaxRows - Len(bom_a_l.rows))}
  /\ dispensing_data = NoneFrame
  /\ raw_materials = [columns |-> {"TRIMcode", "SOH"}, rows |-> <<>>]
  /\ analysis_results \in SuppliedResults
  /\ call = NoCall
  /\ outcome = "none"
  /\ requirements = <<>>
  /\ ui = "none"
  /\ insights = <<>>
  /\ page = NoPage
  /\ runtime = NoRuntime

\* analysis_results = analyze_bom_data(bom_a_l, bom_m_z, dispensing_data, raw_materials);
\* when the call raises nothing is assigned
Analyze ==
  /\ analysis_results = <<>>
  /\ call.fn = "none"
  /\ LET r == analyze_bom_data(bom_a_l, bom_m_z, dispensing_data, raw_materials)
     IN /\ analysis_results' = r.results
        /\ outcome' = r.outcome
  /\ call' = [fn |-> "analyze", product |-> <<>>, quantity_desired |-> 0]
  /\ UNCHANGED <<bom_a_l, bom_m_z, dispensing_data, raw_materials, requirements, ui, insights,
                 page, runtime>>

\* the overview page calls generate_insights(analysis_results)
GenerateInsights ==
  /\ analysis_results # <<>>
  /\ call.fn = "analyze"
  /\ LET r == generate_insights(analysis_results)
     IN /\ insights' = r.insights
        /\ outcome' = r.outcome
  /\ call' = [fn |-> "insights", product |-> <<>>, quantity_desired |-> 0]
  /\ UNCHANGED <<bom_a_l, bom_m_z, dispensing_data, raw_materials, analysis_results,
                 requirements, ui, page, runtime>>

\* the main workflow cleans the four uploads in place
CleanData ==
  /\ call.fn = "none"
  /\ bom_a_l' = clean_data(bom_a_l, numeric_columns_bom)
  /\ bom_m_z' = clean_data(bom_m_z, numeric_columns_bom)
  /\ dispensing_data' = clean_data(dispensing_data, numeric_columns_dispensing)
  /\ raw_materials' = clean_data(raw_materials, numeric_columns_raw_materials)
  /\ call' = [fn |-> "clean", product |-> <<>>, quantity_desired |-> 0]
  /\ outcome' = "returned"
  /\ UNCHANGED <<analysis_results, requirements, ui, insights, page, runtime>>

\* the page of one script run calls
\* calculate_requirements(product, quantity_desired, analysis_results, ..., raw_materials)
CallRequirements ==
  /\ analysis_results # <<>>
  /\ call.fn = "analyze"
  /\ \E product \in ProductIdsA, quantity_desired \in DesiredQuantities :
       LET r == calculate_requirements(product, quantity_desired,
                                       analysis_results, raw_materials)
       IN /\ call' = [fn |-> "A", product |-> product,
                      quantity_desired |-> quantity_desired]
          /\ outcome' = r.outcome
          /\ requirements' = r.requirements
  /\ UNCHANGED <<bom_a_l, bom_m_z, dispensing_data, raw_materials, analysis_results,
                 ui, insights, page, runtime>>

\* one call of
\* calculate_custom_requirements(product, quantity_desired, bom_a_l, bom_m_z, analysis_results)
CallCustomRequirements ==
  /\ call.fn = "none"
  /\ \E product \in ProductIds, quantity_desired \in DesiredQuantities :
       LET r == calculate_custom_requirements(product, quantity_desired,
                                              bom_a_l, bom_m_z, analysis_results)
       IN /\ call' = [fn |-> "B", product |-> product,
                      quantity_desired |-> quantity_desired]
          /\ outcome' = r.outcome
          /\ requirements' = r.requirements
          /\ ui' = r.ui
  /\ UNCHANGED <<bom_a_l, bom_m_z, dispensing_data, raw_materials, analysis_results,
                 insights, page, runtime>>

\* one rendering of the Search & Requirements page after the analysis
SearchAndRequirementsPage ==
  /\ analysis_results # <<>>
  /\ call.fn = "analyze"
  /\ \E product \in PageProducts, quantity_desired \in PageQuantities :
       LET r == search_and_requirements_page(product, quantity_desired, analysis_results,
                                             bom_a_l, bom_m_z, raw_materials)
       IN /\ call' = [fn |-> "page", product |-> product,
                      quantity_desired |-> quantity_desired]
          /\ page' = [invoked |-> r.invoked, shown |-> r.shown]
          /\ outcome' = "returned"
          /\ requirements' = r.requirements
          /\ ui' = r.ui
  /\ UNCHANGED <<bom_a_l, bom_m_z, dispensing_data, raw_materials, analysis_results,
                 insights, runtime>>

\* pd.read_excel / pd.read_csv: a fresh table object of the session
SessionLoad(s) ==
  /\ runtime.sessions[s].pc = "start"
  /\ \E u \in Uploads :
       runtime' = [heap |-> Append(runtime.heap, u @@ [optimized |-> FALSE]),
                   cache |-> runtime.cache,
                   sessions |-> [runtime.sessions EXCEPT
                                   ![s] = [@ EXCEPT !.pc = "loaded", !.upload = u,
                                                    !.table = Len(runtime.heap) + 1]]]
  /\ UNCHANGED <<bom_a_l, bom_m_z, dispensing_data, raw_materials, analysis_results,
                 call, outcome, requirements, ui, insights, page>>

\* bom_a_l = clean_data(bom_a_l, numeric_columns_bom) through the cache: on a
\* hit the stored object is returned, on a miss the session's table is
\* cleaned in place, stored and returned
SessionClean(s) ==
  /\ runtime.sessions[s].pc = "loaded"
  /\ LET own == runtime.sessions[s].table
         hit == cached(runtime.cache, "clean_data", runtime.heap[own])
         ref == IF hit # 0 THEN hit ELSE own
         heap == IF hit # 0 THEN runtime.heap
                 ELSE [runtime.heap EXCEPT ![own] = clean_in_place(@, numeric_columns_bom)]
     IN runtime' = [heap |-> heap,
                    cache |-> IF hit # 0 THEN runtime.cache
                              ELSE runtime.cache
                                     \cup {[fn |-> "clean_data", key |-> runtime.heap[own],
                                            ref |-> own]},
                    sessions |-> [runtime.sessions EXCEPT
                                    ![s] = [@ EXCEPT !.pc = "cleaned", !.table = ref,
                                                     !.returned_clean = heap[ref]]]]
  /\ UNCHANGED <<bom_a_l, bom_m_z, dispensing_data, raw_materials, analysis_results,
                 call, outcome, requirements, ui, insights, page>>

\* bom_a_l = optimize_memory(...) through the cache
SessionOptimize(s) ==
  /\ runtime.sessions[s].pc = "cleaned"
  /\ LET own == runtime.sessions[s].table
         hit == cached(runtime.cache, "optimize_memory", runtime.heap[own])
     IN runtime' = [heap |-> IF hit # 0 THEN runtime.heap
                             ELSE [runtime.heap EXCEPT ![own] = optimize_memory(@)],
                    cache |-> IF hit # 0 THEN runtime.cache
                              ELSE runtime.cache
                                     \cup {[fn |-> "optimize_memory", key |-> runtime.heap[own],
                                            ref |-> own]},
                    sessions |-> [runtime.sessions EXCEPT
                                    ![s] = [@ EXCEPT !.pc = "optimized",
                                                     !.table = IF hit # 0 THEN hit ELSE own]]]
  /\ UNCHANGED <<bom_a_l, bom_m_z, dispensing_data, raw_materials, analysis_results,
                 call, outcome, requirements, ui, insights, page>>

\* analysis_results = analyze_bom_data(bom_a_l, bom_m_z) through the cache:
\* on a hit the stored dictionary is returned, on a miss a new one is built
\* from the session's table, stored and returned
SessionAnalyze(s) ==
  /\ runtime.sessions[s].pc = "optimized"
  /\ LET own == runtime.sessions[s].table
         hit == cached(runtime.cache, "analyze_bom_data", runtime.heap[own])
         ref == IF hit # 0 THEN hit ELSE Len(runtime.heap) + 1
         heap == IF hit # 0 THEN runtime.heap
                 ELSE Append(runtime.heap,
                             analyze_bom_data(table_of(runtime.heap[own]), EmptyPartition,
                                              NoneFrame, NoneFrame).results)
     IN runtime' = [heap |-> heap,
                    cache |-> IF hit # 0 THEN runtime.cache
                              ELSE runtime.cache
                                     \cup {[fn |-> "analyze_bom_data", key |-> runtime.heap[own],
                                            ref |-> ref]},
                    sessions |-> [runtime.sessions EXCEPT
                                    ![s] = [@ EXCEPT !.pc = "analysed", !.result = ref,
                                                     !.returned_analysis = heap[ref]]]]
  /\ UNCHANGED <<bom_a_l, bom_m_z, dispensing_data, raw_materials, analysis_results,
                 call, outcome, requirements, ui, insights, page>>

\* one process, two sessions, nothing uploaded yet
InitCache ==
  /\ bom_a_l = EmptyPartition
  /\ bom_m_z = EmptyPartition
  /\ dispensing_data = NoneFrame
  /\ raw_materials = NoneFrame
  /\ analysis_results = <<>>
  /\ call = NoCall
  /\ outcome = "none"
  /\ requirements = <<>>
  /\ ui = "none"
  /\ insights = <<>>
  /\ page = NoPage
  /\ runtime = [heap |-> <<>>, cache |-> {}, sessions |-> [s \in Sessions |-> NoSession]]

Next == Analyze \/ CallRequirements

NextB == CallCustomRequirements

Spec == Init /\ [][Next]_vars

SpecB == InitB /\ [][NextB]_vars

SpecC == InitC /\ [][NextB]_vars

NextPage == Analyze \/ SearchAndRequirementsPage

SpecPage == Init /\ [][NextPage]_vars

NextCache ==
  \/ \E s \in Sessions : SessionLoad(s)
  \/ \E s \in Sessions : SessionClean(s)
  \/ \E s \in Sessions : SessionOptimize(s)
  \/ \E s \in Sessions : SessionAnalyze(s)

SpecCache == InitCache /\ [][NextCache]_vars

NextClean == CleanData

SpecClean == InitClean /\ [][NextClean]_vars

NextK == Analyze \/ GenerateInsights

SpecK == InitK /\ [][NextK]_vars

(***************************************************************************)
(* Properties                                                              *)
(***************************************************************************)
combined == concat(bom_a_l, bom_m_z)

analysed == "product_metrics" \in DOMAIN analysis_results

\* the data-model invariant: FG Code and L2 Code are never both absent
DataModelInvariant ==
  \A i \in 1..Len(combined.rows) :
    notna_text(combined.rows[i]["FG Code"]) \/ notna_text(combined.rows[i]["L2 Code"])

\* C1: for a non-empty combined BOM that satisfies the data-model invariant,
\* the TOTCOST of the product-metrics records adds up to the TOTCOST of all
\* rows of the combined BOM.
C1_TotalsConserved ==
  (analysed /\ combined.rows # <<>> /\ DataModelInvariant)
    => sum_field(analysis_results.product_metrics, "TOTCOST")
         = sum_column(combined, 1..Len(combined.rows), "TOTCOST")

\* the FG Code values, missing ones left out, of the rows of a component
products_of(component) ==
  {combined.rows[i]["FG Code"] :
     i \in {j \in 1..Len(combined.rows) : combined.rows[j]["L2 Code"] = component}}
    \ {NaNText}

\* C2: used_in_products of every component-usage record is the number of
\* distinct FG Code values among the rows of that component; a row without
\* FG Code adds no value to the count.
C2_UsedInProducts ==
  analysed =>
    \A k \in 1..Len(analysis_results.component_usage.rows) :
      LET u == analysis_results.component_usage.rows[k]
      IN u.used_in_products = Cardinality(products_of(u.index))

\* C7: consecutive entries of the product-complexity result have
\* non-increasing scores.
C7_ComplexitySorted ==
  analysed =>
    \A k \in 1..(Len(analysis_results.product_complexity) - 1) :
      analysis_results.product_complexity[k].score
        >= analysis_results.product_complexity[k + 1].score

\* the sort had to move an entry: the first entry has the greater FG Code
\* and the strictly greater score
C7_Witness ==
  /\ analysed
  /\ Len(analysis_results.product_complexity) >= 2
  /\ analysis_results.product_complexity[1].score
       > analysis_results.product_complexity[2].score
  /\ text_less(analysis_results.product_complexity[2].index,
               analysis_results.product_complexity[1].index)

\* the line Strategy A owes for the k-th component of the usage table
expected_line_A(k) ==
  LET u == analysis_results.component_usage.rows[k]
      hits == {i \in 1..Len(raw_materials.rows) : raw_materials.rows[i]["TRIMcode"] = u.index}
      stock == sum_column(raw_materials, hits, "SOH")
      required == [num |-> u.avg_quantity.num * call.quantity_desired,
                   den |-> u.avg_quantity.den]
  IN [Component |-> u.index,
      RequiredQuantity |-> required,
      StockQuantity |-> stock,
      SufficientStock |->
        IF required.den # 0 /\ stock * required.den >= required.num THEN "Yes" ELSE "No"]

\* the lines of a Strategy A call that returned are the owed ones
LinesOfStrategyA ==
  /\ Len(requirements) = Len(analysis_results.component_usage.rows)
  /\ \A k \in 1..Len(requirements) : requirements[k] = expected_line_A(k)

\* C8: calculate_requirements returns exactly one line per component of the
\* usage table, each with Required Quantity = avg_quantity * desired quantity,
\* Stock Quantity = the sum of SOH of the component's stock rows (0 without
\* one) and Sufficient Stock = Yes exactly when stock >= required.
C8_StrategyALines ==
  call.fn = "A" => (outcome = "returned" /\ LinesOfStrategyA)

\* the part of C8 that the code keeps: whenever the call returns
C8_LinesWhenReturned ==
  (call.fn = "A" /\ outcome = "returned") => LinesOfStrategyA

\* C9: the product argument never influences Strategy A: the call made has
\* the outcome a call with any other product identifier has.
C9_ProductAgnostic ==
  call.fn = "A" =>
    \A other \in ProductIdsA :
      calculate_requirements(other, call.quantity_desired, analysis_results, raw_materials)
        = [outcome |-> outcome, requirements |-> requirements]

\* the three logical columns Strategy B needs are among the columns
resolvable ==
  /\ first_alias(possible_columns.assly, combined.columns) # None
  /\ first_alias(possible_columns.component, combined.columns) # None
  /\ first_alias(possible_columns.qty, combined.columns) # None

assly_cell(i) == combined.rows[i][first_alias(possible_columns.assly, combined.columns)]
qty_cell(i) == combined.rows[i][first_alias(possible_columns.qty, combined.columns)]

\* the rows, in combined-BOM order, the lines of the call were built from
source_rows ==
  positions(find_product_bom(combined,
                             first_alias(possible_columns.assly, combined.columns),
                             call.product).rows)

\* C3: Total Unit Quantity of every returned line is the unit quantity of
\* the BOM row the line was built from times the desired quantity, a missing
\* unit quantity counting as 1.
C3_TotalQuantity ==
  (call.fn = "B" /\ outcome = "returned" /\ requirements # <<>>) =>
    LET matched == source_rows
    IN \A n \in 1..Len(requirements) :
         LET q == qty_cell(matched[requirements[n].index + 1])
         IN requirements[n].TotalUnitQuantity
              = (IF q = NaN THEN 1 ELSE q) * call.quantity_desired

\* ten units were asked of a row without unit quantity and of a row with one
C3_Witness ==
  /\ call.fn = "B" /\ outcome = "returned" /\ call.quantity_desired = 10
  /\ \E n \in 1..Len(requirements) :
       /\ qty_cell(source_rows[requirements[n].index + 1]) = NaN
       /\ requirements[n].TotalUnitQuantity = 10
  /\ \E n \in 1..Len(requirements) : requirements[n].TotalUnitQuantity = 30

\* an assembly code equals the identifier but for case and outer blanks
same_but_case_and_blanks(code, product) ==
  code # NaNText /\ lower(strip(code)) = lower(strip(product))

\* C4: when some row's assembly code equals the product identifier after
\* ignoring letter case and leading/trailing whitespace on both sides,
\* Strategy B returns a non-empty result.
C4_CaseAndBlanksFallback ==
  (call.fn = "B" /\ resolvable
     /\ \E i \in 1..Len(combined.rows) : same_but_case_and_blanks(assly_cell(i), call.product))
    => (outcome = "returned" /\ requirements # <<>>)

\* only the case-insensitive lookup finds the product
C4_Witness ==
  /\ call.fn = "B" /\ resolvable
  /\ \E i \in 1..Len(combined.rows) : same_but_case_and_blanks(assly_cell(i), call.product)
  /\ \A i \in 1..Len(combined.rows) : strip(astype_str(assly_cell(i))) # strip(call.product)
  /\ requirements # <<>>

\* t holds p as a literal substring, letter case ignored
literal_contains(t, p) ==
  \E off \in 0..(Len(t) - Len(p)) :
    \A j \in 1..Len(p) : lower_char(p[j]) = lower_char(t[off + j])

\* the three lookups as stated: on the assembly codes that are present
lookup_exact ==
  {i \in 1..Len(combined.rows) :
     assly_cell(i) # NaNText /\ strip(assly_cell(i)) = strip(call.product)}
lookup_caseless ==
  {i \in 1..Len(combined.rows) : same_but_case_and_blanks(assly_cell(i), call.product)}
lookup_substring ==
  {i \in 1..Len(combined.rows) :
     assly_cell(i) # NaNText /\ literal_contains(assly_cell(i), call.product)}

\* C5: when no row matches the identifier under the exact, the
\* case-insensitive and the substring lookup, Strategy B returns an empty
\* result and does not raise.
C5_NoMatchIsEmpty ==
  (call.fn = "B" /\ resolvable
     /\ lookup_exact = {} /\ lookup_caseless = {} /\ lookup_substring = {})
    => (outcome = "returned" /\ requirements = <<>>)

\* the rows of the first lookup, in the stated order, that finds any
lookup_first ==
  IF lookup_exact # {} THEN lookup_exact
  ELSE IF lookup_caseless # {} THEN lookup_caseless
  ELSE lookup_substring

\* C10: the rows of the result are those of the first non-empty lookup in
\* the order exact, case-insensitive, literal substring; when the exact
\* lookup finds a row, rows that only contain the identifier are left out.
C10_FirstLookupWins ==
  (call.fn = "B" /\ resolvable) =>
    /\ outcome = "returned"
    /\ (lookup_first = {}) = (requirements = <<>>)
    /\ \A n \in 1..Len(requirements) :
         source_rows[requirements[n].index + 1] \in lookup_first

\* the part of C10 that the code keeps: an exact match shuts out the rest
C10_ExactShutsOutSubstring ==
  (call.fn = "B" /\ resolvable /\ outcome = "returned"
     /\ strategy_exact(combined, first_alias(possible_columns.assly, combined.columns),
                       call.product) # {})
    => \A n \in 1..Len(requirements) :
         source_rows[requirements[n].index + 1]
           \in strategy_exact(combined,
                              first_alias(possible_columns.assly, combined.columns),
                              call.product)

\* the combined BOM of the end-to-end example, its quantity column named h
example_bom(h) ==
  /\ combined.columns = LookupColumns(h)
  /\ combined.rows = <<LookupRow(h, P1, C1, 2, 5), LookupRow(h, P1, C2, 3, 7)>>

\* the stock supplied for a component: its SOH in the usage table, else 0
supplied_stock(component) ==
  LET usage == get_component_usage(analysis_results)
      hits == {i \in 1..Len(usage.rows) : usage.rows[i].index = component}
  IN IF hits = {} \/ "SOH" \notin usage.columns THEN 0
     ELSE usage.rows[CHOOSE i \in hits : TRUE].SOH

\* the result of the end-to-end example: C2 with 30, then C1 with 20
example_result ==
  /\ outcome = "returned"
  /\ Len(requirements) = 2
  /\ requirements[1].ComponentCode = C2 /\ requirements[1].TotalUnitQuantity = 30
  /\ requirements[2].ComponentCode = C1 /\ requirements[2].TotalUnitQuantity = 20
  /\ \A n \in 1..2 :
       (requirements[n].StockStatus = "Sufficient")
         = (supplied_stock(requirements[n].ComponentCode) # NaN
              /\ supplied_stock(requirements[n].ComponentCode)
                   >= requirements[n].TotalUnitQuantity)

example_call == call = [fn |-> "B", product |-> P1, quantity_desired |-> 10]

\* C6 as stated: with the columns of the data model (FG Code, L2 Code,
\* L2 Unit Qty, L2 CostInBOM), product P1 and desired quantity 10 give C2
\* with 30, then C1 with 20, sufficiency being stock >= required.
C6_EndToEnd_DataModel ==
  (example_bom("L2 Unit Qty") /\ example_call) => example_result

\* C6 amended: the same with the quantity column named L2 Unti Qty, the
\* header Strategy B reads; under L2 Unit Qty the result is empty.
C6_EndToEnd ==
  /\ (example_bom("L2 Unti Qty") /\ example_call) => example_result
  /\ (example_bom("L2 Unit Qty") /\ example_call)
       => (outcome = "returned" /\ requirements = <<>>)

\* the example was run against supplied stock that covers C1 but not C2
C6_Witness ==
  /\ example_bom("L2 Unti Qty") /\ example_call
  /\ Len(requirements) = 2
  /\ requirements[1].StockStatus = "Insufficient"
  /\ requirements[2].StockStatus = "Sufficient"

\* the distinct non-missing values of column h among the rows of product fg
codes_of(fg, h) ==
  {combined.rows[i][h] : i \in {j \in 1..Len(combined.rows) : combined.rows[j]["FG Code"] = fg}}
    \ {NaNText}

fg_codes == {combined.rows[i]["FG Code"] : i \in 1..Len(combined.rows)} \ {NaNText}

\* C13: every FG Code of the combined BOM has a product-complexity score, and
\* the score is the number of distinct non-missing L2 Code values plus that of
\* L3 Code plus that of L4 Code among the product's rows; a missing code adds
\* nothing.
C13_ComplexityScore ==
  analysed =>
    /\ {analysis_results.product_complexity[k].index :
          k \in 1..Len(analysis_results.product_complexity)} = fg_codes
    /\ \A k \in 1..Len(analysis_results.product_complexity) :
         LET p == analysis_results.product_complexity[k]
         IN p.score = Cardinality(codes_of(p.index, "L2 Code"))
                        + Cardinality(codes_of(p.index, "L3 Code"))
                        + Cardinality(codes_of(p.index, "L4 Code"))

\* C13 holds for the L3 and L4 levels: the score less the L2 contribution
\* counts only non-missing codes
C13_LowerLevelsSkipMissing ==
  analysed =>
    \A k \in 1..Len(analysis_results.product_complexity) :
      LET p == analysis_results.product_complexity[k]
          l2 == {combined.rows[i]["L2 Code"] :
                   i \in {j \in 1..Len(combined.rows) : combined.rows[j]["FG Code"] = p.index}}
      IN p.score - Cardinality(l2) = Cardinality(codes_of(p.index, "L3 Code"))
                                       + Cardinality(codes_of(p.index, "L4 Code"))

rows_of(fg) == {i \in 1..Len(combined.rows) : combined.rows[i]["FG Code"] = fg}

usage_hits(component) ==
  {i \in 1..Len(get_component_usage(analysis_results).rows) :
     get_component_usage(analysis_results).rows[i].index = component}

\* the stock the claim gives a component: the SOH of its usage record, 0 when
\* there is no usage table, no SOH column, no record or no stock match
defined_stock(component) ==
  LET usage == get_component_usage(analysis_results)
  IN IF usage_hits(component) = {} \/ "SOH" \notin usage.columns THEN 0
     ELSE IF usage.rows[CHOOSE i \in usage_hits(component) : TRUE].SOH = NaN THEN 0
     ELSE usage.rows[CHOOSE i \in usage_hits(component) : TRUE].SOH

\* C15: Stock on Hand of every returned line is a defined number, the SOH of
\* the usage record of the line's component and 0 when the usage table is
\* absent or empty, has no SOH column or holds no stock match; Stock Status is
\* Sufficient exactly when Stock on Hand >= Total Unit Quantity.
C15_StockOnHand ==
  (call.fn = "B" /\ outcome = "returned") =>
    \A n \in 1..Len(requirements) :
      /\ requirements[n].StockOnHand # NaN
      /\ requirements[n].StockOnHand = defined_stock(requirements[n].ComponentCode)
      /\ (requirements[n].StockStatus = "Sufficient")
           = (requirements[n].StockOnHand >= requirements[n].TotalUnitQuantity)

\* C15 apart from the missing stock match: the SOH cell of the usage record
\* is copied as it is, and a missing one compares as insufficient
C15_StockCopiedFromUsage ==
  (call.fn = "B" /\ outcome = "returned") =>
    \A n \in 1..Len(requirements) :
      /\ requirements[n].StockOnHand = supplied_stock(requirements[n].ComponentCode)
      /\ (requirements[n].StockStatus = "Sufficient")
           = (requirements[n].StockOnHand # NaN
                /\ requirements[n].StockOnHand >= requirements[n].TotalUnitQuantity)

component_cell(i) == combined.rows[i][first_alias(possible_columns.component, combined.columns)]

\* the component code of the line built from combined-BOM row i
built_code(i) ==
  IF component_cell(i) = NaNText THEN UnknownText ELSE astype_str(component_cell(i))

\* C16: no two lines of the result have the same component code; every
\* component of a matched row has a line, and that line is built from the
\* first matched row of the component in combined-BOM order (A-L before M-Z),
\* whatever the quantities, i.e. duplicates are dropped before the sort.
C16_FirstRowKept ==
  (call.fn = "B" /\ outcome = "returned" /\ resolvable) =>
    LET matched == source_rows
        code == [j \in 1..Len(matched) |-> built_code(matched[j])]
    IN /\ \A n, m \in 1..Len(requirements) :
            requirements[n].ComponentCode = requirements[m].ComponentCode => n = m
       /\ \A j \in 1..Len(matched) :
            \E n \in 1..Len(requirements) : requirements[n].ComponentCode = code[j]
       /\ \A n \in 1..Len(requirements) :
            /\ code[requirements[n].index + 1] = requirements[n].ComponentCode
            /\ \A j \in 1..Len(matched) :
                 code[j] = requirements[n].ComponentCode
                   => matched[requirements[n].index + 1] <= matched[j]

\* the component occurs in an A-L row and, with a larger quantity, in an M-Z
\* row; the line kept is the one of the A-L row
C16_Witness ==
  /\ call.fn = "B" /\ outcome = "returned"
  /\ Len(bom_a_l.rows) = 1 /\ Len(bom_m_z.rows) = 1
  /\ Len(source_rows) = 2 /\ Len(requirements) = 1
  /\ built_code(1) = built_code(2)
  /\ qty_cell(2) # NaN /\ qty_cell(1) # NaN /\ qty_cell(2) > qty_cell(1)
  /\ requirements[1].TotalUnitQuantity = qty_cell(1) * call.quantity_desired

\* the first alias of a priority list that is a column, None when none is
RECURSIVE first_present(_, _)
first_present(aliases, columns) ==
  IF aliases = <<>> THEN None
  ELSE IF Head(aliases) \in columns THEN Head(aliases)
  ELSE first_present(Tail(aliases), columns)

assly_column == first_present(possible_columns.assly, combined.columns)
component_column == first_present(possible_columns.component, combined.columns)
qty_column == first_present(possible_columns.qty, combined.columns)
description_column == first_present(possible_columns.description, combined.columns)

unresolved == assly_column = None \/ component_column = None \/ qty_column = None

\* the rows whose cell in the resolved assembly column is the identifier
rows_of_product ==
  {i \in 1..Len(combined.rows) :
     /\ combined.rows[i][assly_column] # NaNText
     /\ strip(combined.rows[i][assly_column]) = strip(call.product)}

\* line n is read from row i through the resolved columns
read_through_resolved(n, i) ==
  /\ requirements[n].ComponentCode
       = (IF combined.rows[i][component_column] = NaNText THEN UnknownText
          ELSE combined.rows[i][component_column])
  /\ requirements[n].TotalUnitQuantity
       = (IF combined.rows[i][qty_column] = NaN THEN 1 ELSE combined.rows[i][qty_column])
           * call.quantity_desired
  /\ requirements[n].Description
       = (IF description_column = None THEN NAText
          ELSE IF combined.rows[i][description_column] = NaNText THEN NAText
          ELSE combined.rows[i][description_column])

\* C11: each logical column is the first alias of its priority list that is
\* a column of the combined table: the call returns an empty result without
\* raising, as a schema error, exactly when the assembly, the component or the
\* unit-quantity column has no alias among the columns; otherwise the rows of
\* the product are read through the resolved columns, and a description
\* column that cannot be resolved only leaves the description out.
C11_ColumnResolution ==
  (call.fn = "B") =>
    /\ unresolved => (outcome = "returned" /\ requirements = <<>> /\ ui = "error")
    /\ ~unresolved =>
         /\ ui # "error"
         /\ rows_of_product # {} =>
              /\ outcome = "returned" /\ requirements # <<>>
              /\ \A n \in 1..Len(requirements) :
                   \E i \in rows_of_product : read_through_resolved(n, i)

\* both aliases of the assembly, component and quantity column are columns,
\* no description alias is, and the product has a line
C11_Witness ==
  /\ call.fn = "B" /\ outcome = "returned"
  /\ {"Product", "FG Code", "Component", "L2 Code", "L2 Unti Qty", "Unit Qty"}
       \subseteq combined.columns
  /\ description_column = None
  /\ assly_column = "Product" /\ component_column = "Component" /\ qty_column = "L2 Unti Qty"
  /\ Len(combined.rows) = 1
  /\ Len(requirements) = 1
  /\ requirements[1].Description = NAText
  /\ read_through_resolved(1, 1)

\* C12: when FG Code or L2 Code is a column of neither partition,
\* analyze_bom_data fails with an error and the caller is left without any
\* analysis result: none of product_metrics, product_complexity,
\* component_usage and cost_distribution is returned.
C12_NoPartialResult ==
  (call.fn = "analyze" /\ {"FG Code", "L2 Code"} \ combined.columns # {}) =>
    /\ outcome = "raised"
    /\ {"product_metrics", "product_complexity", "component_usage", "cost_distribution"}
         \cap DOMAIN analysis_results = {}

\* the analysis was run on a combined BOM of two rows without FG Code
C12_Witness ==
  /\ call.fn = "analyze" /\ outcome = "raised"
  /\ "FG Code" \notin combined.columns /\ "L2 Code" \in combined.columns
  /\ Len(bom_a_l.rows) = 1 /\ Len(bom_m_z.rows) = 1
  /\ analysis_results = <<>>

\* the sum of column h over the first n rows of df whose key column holds key
RECURSIVE total_of(_, _, _, _, _)
total_of(df, key_column, key, h, n) ==
  IF n = 0 THEN 0
  ELSE total_of(df, key_column, key, h, n - 1)
         + (IF df.rows[n][key_column] = key THEN df.rows[n][h] ELSE 0)

has_row(df, key_column, key) == \E i \in 1..Len(df.rows) : df.rows[i][key_column] = key

\* the value a left join of the summed column gives a component
joined(df, key_column, key, h) ==
  IF has_row(df, key_column, key) THEN total_of(df, key_column, key, h, Len(df.rows)) ELSE NaN

\* the usage records of the same BOM analysed without the optional datasets
plain_usage == analyze_bom_data(bom_a_l, bom_m_z, NoneFrame, NoneFrame).results.component_usage.rows

\* C17: with dispensing and/or raw-materials data the component-usage records
\* are the same, in the same order, as without; dispensed_qty and
\* dispensed_value are the sums of Qty and Value over the dispensing rows of
\* the component, SOH the sum of SOH over its raw-material rows, and a
\* component without matching row has a missing value, not zero.
C17_LeftJoins ==
  analysed =>
    LET usage == analysis_results.component_usage.rows
        plain == plain_usage
    IN /\ Len(usage) = Len(plain)
       /\ \A k \in 1..Len(usage) :
            /\ \A f \in DOMAIN plain[k] : usage[k][f] = plain[k][f]
            /\ ~is_none(dispensing_data) =>
                 /\ usage[k].dispensed_qty = joined(dispensing_data, "Code", usage[k].index, "Qty")
                 /\ usage[k].dispensed_value
                      = joined(dispensing_data, "Code", usage[k].index, "Value")
            /\ ~is_none(raw_materials) =>
                 usage[k].SOH = joined(raw_materials, "TRIMcode", usage[k].index, "SOH")

\* both datasets were supplied, each with two rows of component C1 and none
\* of C2
C17_Witness ==
  /\ analysed
  /\ ~is_none(dispensing_data) /\ ~is_none(raw_materials)
  /\ Len(analysis_results.component_usage.rows) = 2
  /\ \E k \in 1..2 :
       LET u == analysis_results.component_usage.rows[k]
       IN u.index = C1 /\ u.dispensed_qty = 3 /\ u.dispensed_value = 9 /\ u.SOH = 2
  /\ \E k \in 1..2 :
       LET u == analysis_results.component_usage.rows[k]
       IN u.index = C2 /\ u.dispensed_qty = NaN /\ u.dispensed_value = NaN /\ u.SOH = NaN

\* the non-missing L2 and L3 unit quantities of the rows of product fg
quantities_of(fg) ==
  {combined.rows[i][h] : i \in rows_of(fg), h \in {"L2 Unti Qty", "L3 Unit Qty"}} \ {NaN}

\* C18: MIN_QTY_TO_PRODUCE of every FG Code is the minimum, and
\* MAX_QTY_TO_PRODUCE the maximum, of the non-missing L2 and L3 unit
\* quantities of the product's rows; a column with only missing values leaves
\* the min and max of the other column and does not count as 0.
C18_MinMaxQty ==
  analysed =>
    \A k \in 1..Len(analysis_results.product_metrics) :
      LET m == analysis_results.product_metrics[k]
          q == quantities_of(m.index)
      IN q # {} =>
           /\ m.MIN_QTY_TO_PRODUCE \in q /\ \A v \in q : m.MIN_QTY_TO_PRODUCE <= v
           /\ m.MAX_QTY_TO_PRODUCE \in q /\ \A v \in q : m.MAX_QTY_TO_PRODUCE >= v

\* a product whose rows have no L3 unit quantity at all and L2 unit
\* quantities 2 and 3
C18_Witness ==
  /\ analysed
  /\ \E k \in 1..Len(analysis_results.product_metrics) :
       LET m == analysis_results.product_metrics[k]
       IN /\ Cardinality(rows_of(m.index)) = 2
          /\ \A i \in rows_of(m.index) : combined.rows[i]["L3 Unit Qty"] = NaN
          /\ m.MIN_QTY_TO_PRODUCE = 2 /\ m.MAX_QTY_TO_PRODUCE = 3

\* the components whose stock on hand is below their average quantity
below_average ==
  {u.index : u \in {analysis_results.component_usage.rows[k] :
                      k \in 1..Len(analysis_results.component_usage.rows)}
               \cap {r \in {analysis_results.component_usage.rows[k] :
                              k \in 1..Len(analysis_results.component_usage.rows)} :
                       /\ r.SOH # NaN /\ r.avg_quantity.den # 0
                       /\ r.SOH * r.avg_quantity.den < r.avg_quantity.num}}

reported_shortages == {insights.stock_shortages[k].index : k \in 1..Len(insights.stock_shortages)}

\* C20: generate_insights reports as short of stock exactly the components
\* whose SOH is below avg_quantity when the analysis had raw-materials data;
\* when it had none (no SOH field) generate_insights does not fail and
\* returns the other insights.
C20_InsightsWithoutStock ==
  (call.fn = "insights") =>
    /\ outcome = "returned"
    /\ "most_complex" \in DOMAIN insights /\ "min_max" \in DOMAIN insights
    /\ "SOH" \in analysis_results.component_usage.columns
         => reported_shortages = below_average

\* C20 for an analysis with raw-materials data
C20_ShortagesWithStock ==
  (call.fn = "insights" /\ "SOH" \in analysis_results.component_usage.columns) =>
    /\ outcome = "returned"
    /\ reported_shortages = below_average

is_number(v) == v # NaN /\ v # Garbage

\* table after is table before with every designated column made of numbers
\* that are not negative, and nothing else changed
non_negative_after(before, after, designated) ==
  /\ after.columns = before.columns /\ Len(after.rows) = Len(before.rows)
  /\ \A i \in 1..Len(before.rows) : \A h \in before.columns :
       IF h \in designated
         THEN /\ is_number(after.rows[i][h]) /\ after.rows[i][h] >= 0
              /\ (is_number(before.rows[i][h]) /\ before.rows[i][h] >= 0)
                   => after.rows[i][h] = before.rows[i][h]
              /\ (~is_number(before.rows[i][h]) \/ before.rows[i][h] < 0)
                   => after.rows[i][h] = 0
       ELSE after.rows[i][h] = before.rows[i][h]

\* table after is table before with garbage and missing cells of the
\* designated columns replaced by 0, and nothing else changed
coerced_after(before, after, designated) ==
  /\ after.columns = before.columns /\ Len(after.rows) = Len(before.rows)
  /\ \A i \in 1..Len(before.rows) : \A h \in before.columns :
       IF h \in designated /\ ~is_number(before.rows[i][h])
         THEN after.rows[i][h] = 0
       ELSE after.rows[i][h] = before.rows[i][h]

cleaning_step == call.fn = "none" /\ call'.fn = "clean"

\* C19: after clean_data every value of every designated numeric column that
\* the table has is a number >= 0: garbage, missing and negative values are
\* replaced by 0; the columns not designated are unchanged.
C19_NonNegativeAfterClean ==
  [][cleaning_step =>
       /\ non_negative_after(bom_a_l, bom_a_l', numeric_columns_bom)
       /\ non_negative_after(bom_m_z, bom_m_z', numeric_columns_bom)
       /\ non_negative_after(dispensing_data, dispensing_data', numeric_columns_dispensing)
       /\ non_negative_after(raw_materials, raw_materials', numeric_columns_raw_materials)]_vars

\* C19 without the negative values: garbage and missing values of the
\* designated columns become 0 and every other cell is unchanged
C19_GarbageAndMissingZeroed ==
  [][cleaning_step =>
       /\ coerced_after(bom_a_l, bom_a_l', numeric_columns_bom)
       /\ coerced_after(bom_m_z, bom_m_z', numeric_columns_bom)
       /\ coerced_after(dispensing_data, dispensing_data', numeric_columns_dispensing)
       /\ coerced_after(raw_materials, raw_materials', numeric_columns_raw_materials)]_vars

\* the identifier typed into the page matches no BOM row under the exact,
\* the case-insensitive and the substring lookup
matches_no_row == lookup_exact = {} /\ lookup_caseless = {} /\ lookup_substring = {}

page_run == call.fn = "page" /\ call.product # <<>> /\ call.quantity_desired > 0

\* C22: on the page, with a product and a desired quantity > 0, Strategy B
\* is invoked first and Strategy A only after Strategy B returned an empty
\* result; for an identifier that matches no BOM row under any lookup the
\* page ends in the "No requirements found" warning, never in the error
\* message, and shows no requirements table.
C22_FallbackEndsInWarning ==
  page_run =>
    /\ page.invoked \in {<<"B">>, <<"B", "A">>}
    /\ matches_no_row => (page.invoked = <<"B", "A">> /\ page.shown = "warning")

\* C22 as far as the order of the strategies goes: Strategy B first,
\* Strategy A only when Strategy B returned no line, no table for an
\* identifier that matches no row, and no strategy without product or
\* quantity
C22_StrategyOrder ==
  (call.fn = "page") =>
    /\ ~page_run => (page.invoked = <<>> /\ page.shown = "none")
    /\ page_run =>
         /\ page.invoked \in {<<"B">>, <<"B", "A">>}
         /\ (page.invoked = <<"B">> /\ page.shown = "table")
              => (requirements # <<>> /\ "ComponentCode" \in DOMAIN requirements[1])
         /\ matches_no_row => page.shown # "table"

\* what clean_data returns for an upload when the session runs alone: the
\* cleaned table, its dtypes not yet narrowed
clean_alone(u) == clean_data(u, numeric_columns_bom) @@ [optimized |-> FALSE]

\* what analyze_bom_data returns for an upload when the session runs alone
analysis_alone(u) ==
  analyze_bom_data(clean_data(u, numeric_columns_bom), EmptyPartition, NoneFrame,
                   NoneFrame).results

session(s) == runtime.sessions[s]

\* C21: no object is shared between the invocations of two sessions, the
\* analysis leaves its input table as it was handed over, and every cached
\* function (clean_data, analyze_bom_data) returns to each session what it
\* would return when run alone on the session's own upload, whatever the
\* interleaving.
C21_NoSharedState ==
  (runtime.sessions # <<>>) =>
    /\ \A s, t \in Sessions :
         (s # t /\ session(s).table # 0 /\ session(t).table # 0)
           => session(s).table # session(t).table
    /\ \A s, t \in Sessions :
         (s # t /\ session(s).result # 0 /\ session(t).result # 0)
           => session(s).result # session(t).result
    /\ \A s \in Sessions :
         /\ session(s).pc \in {"cleaned", "optimized", "analysed"}
              => session(s).returned_clean = clean_alone(session(s).upload)
         /\ session(s).pc = "analysed"
              => /\ session(s).returned_analysis = analysis_alone(session(s).upload)
                 /\ table_of(runtime.heap[session(s).table])
                      = clean_data(session(s).upload, numeric_columns_bom)

\* C21 as far as values go: the cells of the table a session gets from
\* clean_data, and the analysis it gets, are those of a run alone, and the
\* analysis leaves the cells of its input table as they were
C21_SameCellsAsAlone ==
  (runtime.sessions # <<>>) =>
    \A s \in Sessions :
      /\ session(s).pc \in {"cleaned", "optimized", "analysed"}
           => table_of(session(s).returned_clean)
                = clean_data(session(s).upload, numeric_columns_bom)
      /\ session(s).pc = "analysed"
           => /\ session(s).returned_analysis = analysis_alone(session(s).upload)
              /\ table_of(runtime.heap[session(s).table])
                   = clean_data(session(s).upload, numeric_columns_bom)

\* an object is shared only between sessions that uploaded the same cells
C21_SharedOnlyOnEqualUploads ==
  (runtime.sessions # <<>>) =>
    \A s, t \in Sessions :
      (s # t /\ session(s).table # 0 /\ session(s).table = session(t).table)
        => session(s).upload = session(t).upload

====
